---- MODULE Spec2Model ----
(***************************************************************************)
(* Model of server.js: the /analyze, /sessions/:id and /health handlers of *)
(* the AI Soccer backend, the roster loaded from pros.json and the session *)
(* files under sessions/.                                                  *)
(*                                                                         *)
(* Numbers.  JavaScript numbers in [0,1] are held as integers in units of  *)
(* 1/Unit (0.6 is 60), similarities in units of 1/(1000*1000), and the     *)
(* square roots of cosineSim are integer square roots, so the 1e-9 of its  *)
(* denominator is below the resolution and only keeps 0/0 from happening.  *)
(* NaN is a value outside every range that all arithmetic propagates, and  *)
(* JSONNull is what JSON.stringify writes for it.                          *)
(*                                                                         *)
(* Not modelled: the uploads/ directory that multer fills (no handler      *)
(* reads it and its file names cannot leave uploads/), and the value of    *)
(* created_at (a wall-clock reading that no handler reads back).           *)
(***************************************************************************)
EXTENDS Integers, Sequences, FiniteSets, TLC

VARIABLES pros, files, sessionsDir, last

vars == <<pros, files, sessionsDir, last>>

(* ---------------------------- bounds ---------------------------------- *)

\* how many distinct values uuidv4().slice(0,8) takes in the model
NumIds == 2
\* size of the larger of the two rosters pros.json may hold
MaxRoster == 6

(* ------------------------- number encoding ---------------------------- *)

Unit == 10 * 10
NaN == 0 - 1000000000
JSONNull == NaN - 1

Min(a, b) == IF a < b THEN a ELSE b
Max(a, b) == IF a > b THEN a ELSE b

\* Math.min(Math.max(x, 0), 1): NaN goes through both unchanged
Clamp01(x) == IF x = NaN THEN NaN ELSE Min(Max(x, 0), Unit)

RECURSIVE IsqrtIter(_, _, _)
IsqrtIter(n, lo, hi) ==
  IF lo >= hi THEN lo
  ELSE LET mid == (lo + hi + 1) \div 2
       IN IF mid * mid <= n THEN IsqrtIter(n, mid, hi)
          ELSE IsqrtIter(n, lo, mid - 1)

\* Math.sqrt on the integer grid
Sqrt(n) == IsqrtIter(n, 0, Min(n, 40000))

(* --------------------------- program constants ------------------------ *)

TopN == 5
HeightBase == 150
HeightSpan == 50
AgeBase == 12
AgeSpan == 20
KneeFlexMin == 50
BodyLeanMin == 10
SprintTempoMin == 160
TouchesMin == 15
KneeFlexScale == 120
BodyLeanScale == 45
SprintTempoScale == 220
TouchesScale == 60
\* the default 0.6 of pace, dribbling, passing and shooting
DefaultSkill == (6 * Unit) \div 10

(* ------------------------------ roster -------------------------------- *)

\* One entry of pros.json: name, position, club and a feature vector of
\* 21 numbers in [0,1] (README: "features length = 21").  Entries k and
\* k+3 carry the same vector, so equal similarities occur.
ProFeatures(k) ==
  LET key == k % 3
  IN [i \in 1..21 |-> (((i * (key + 2)) + key * key) % 11) * 10]

ProEntry(k) ==
  [name |-> "pro" \o ToString(k),
   position |-> IF k % 2 = 0 THEN "striker" ELSE "winger",
   club |-> "club" \o ToString(k % 4),
   features |-> ProFeatures(k)]

Roster(n) == [k \in 1..n |-> ProEntry(k)]

\* the rosters pros.json may hold at start: one shorter than TopN, one longer
Rosters == {Roster(MaxRoster - 3), Roster(MaxRoster)}

(* ------------------------------ cosineSim ----------------------------- *)

\* b[i] past the end of b is undefined, and undefined * x is NaN
At(b, i) == IF i <= Len(b) THEN b[i] ELSE NaN

RECURSIVE SumProd(_, _, _)
SumProd(a, b, n) ==
  IF n = 0 THEN 0
  ELSE LET rest == SumProd(a, b, n - 1)
           x == At(a, n)
           y == At(b, n)
       IN IF rest = NaN \/ x = NaN \/ y = NaN THEN NaN ELSE rest + x * y

cosineSim(a, b) ==
  LET dot == SumProd(a, b, Len(a))
      na == SumProd(a, a, Len(a))
      nb == SumProd([i \in 1..Len(a) |-> At(b, i)], [i \in 1..Len(a) |-> At(b, i)], Len(a))
  IN IF dot = NaN \/ na = NaN \/ nb = NaN THEN NaN
     ELSE IF Sqrt(na) * Sqrt(nb) = 0 THEN 0
     ELSE (((dot * 1000) \div Sqrt(na)) * 1000) \div Sqrt(nb)

(* --------------------------- extractFeatures -------------------------- *)

\* a destructured property: its value, or undefined when the object has none
Has(attrs, f) == f \in DOMAIN attrs

Skill(attrs, f) == IF Has(attrs, f) THEN attrs[f] ELSE DefaultSkill

posMap == <<"winger", "striker", "midfielder", "defender", "goalkeeper">>

extractFeatures(attrs) ==
  LET foot == IF Has(attrs, "dominant_foot") THEN attrs.dominant_foot ELSE "undefined"
      position == IF Has(attrs, "position") THEN attrs.position ELSE "undefined"
      footR == IF foot = "right" THEN Unit ELSE 0
      footL == IF foot = "left" THEN Unit ELSE 0
      footTwo == IF foot = "two-footed" THEN Unit ELSE 0
      posVec == [i \in 1..Len(posMap) |-> IF posMap[i] = position THEN Unit ELSE 0]
      h == IF Has(attrs, "height_cm")
             THEN Clamp01(((attrs.height_cm - HeightBase) * Unit) \div HeightSpan)
             ELSE NaN
      a == IF Has(attrs, "age")
             THEN Clamp01(((attrs.age - AgeBase) * Unit) \div AgeSpan)
             ELSE NaN
  IN <<h, a, Skill(attrs, "pace"), Skill(attrs, "dribbling"),
       Skill(attrs, "passing"), Skill(attrs, "shooting"),
       footR, footL, footTwo>> \o posVec

(* --------------------------- analyzeVideoMock ------------------------- *)

\* every result analyzeVideoMock can return
MetricsRange ==
  [kneeFlex : 30..90, bodyLean : 5..30, sprintTempo : 140..200, touches : 10..35]

Metrics(k, b, s, t) == [kneeFlex |-> k, bodyLean |-> b, sprintTempo |-> s, touches |-> t]

\* results on both sides of every threshold, and at the ends of two ranges
MetricsGrid ==
  {Metrics(k, b, s, t) : k \in {30, KneeFlexMin - 1, KneeFlexMin, 90},
                         b \in {BodyLeanMin - 1, BodyLeanMin},
                         s \in {SprintTempoMin - 1, SprintTempoMin},
                         t \in {10, TouchesMin - 1, TouchesMin, 35}}

\* the results a request of the model draws from analyzeVideoMock: no
\* threshold fires, all fire, the first and the third fire
analyzeVideoMock ==
  {Metrics(50, 10, 160, 15), Metrics(49, 9, 159, 14), Metrics(49, 10, 159, 15)}

(* ------------------------ suggestionsFromMetrics ---------------------- *)

SuggestKnee == "Increase knee flexion during acceleration"
SuggestLean == "Add forward body-lean on first 2-3 steps"
SuggestTempo == "Improve step cadence"
SuggestTouches == "Raise ball-contact frequency"
SuggestFallback == "Great base mechanics"

\* a variant whose first rule reads <= for <
suggestionsInclusive(m) ==
  LET o1 == IF m.kneeFlex <= KneeFlexMin THEN <<SuggestKnee>> ELSE <<>>
      o2 == IF m.bodyLean < BodyLeanMin THEN Append(o1, SuggestLean) ELSE o1
      o3 == IF m.sprintTempo < SprintTempoMin THEN Append(o2, SuggestTempo) ELSE o2
      o4 == IF m.touches < TouchesMin THEN Append(o3, SuggestTouches) ELSE o3
  IN IF Len(o4) = 0 THEN Append(o4, SuggestFallback) ELSE o4

suggestionsFromMetrics(m) ==
  LET o1 == IF m.kneeFlex < KneeFlexMin THEN <<SuggestKnee>> ELSE <<>>
      o2 == IF m.bodyLean < BodyLeanMin THEN Append(o1, SuggestLean) ELSE o1
      o3 == IF m.sprintTempo < SprintTempoMin THEN Append(o2, SuggestTempo) ELSE o2
      o4 == IF m.touches < TouchesMin THEN Append(o3, SuggestTouches) ELSE o3
  IN IF Len(o4) = 0 THEN Append(o4, SuggestFallback) ELSE o4

(* ------------------------------ ranking ------------------------------- *)

\* Math.min(x / scale, 1) of step 3
Scaled(x, scale) == Min((x * Unit) \div scale, Unit)

metricVec(metrics) ==
  <<Scaled(metrics.kneeFlex, KneeFlexScale),
    Scaled(metrics.bodyLean, BodyLeanScale),
    Scaled(metrics.sprintTempo, SprintTempoScale),
    Scaled(metrics.touches, TouchesScale)>>

playerVecOf(feats, metrics) == feats \o metricVec(metrics)

\* the callback of pros.map
Scored(p, playerVec) ==
  [name |-> p.name, position |-> p.position, club |-> p.club,
   similarity |-> cosineSim(playerVec, p.features)]

\* a variant that orders ascending: a.similarity - b.similarity
ComparatorAscending(a, b) ==
  IF a.similarity = NaN \/ b.similarity = NaN THEN 0
  ELSE a.similarity - b.similarity

\* the comparator (a,b) => b.similarity - a.similarity; Array.prototype.sort
\* reads a NaN result as +0
Comparator(a, b) ==
  IF a.similarity = NaN \/ b.similarity = NaN THEN 0
  ELSE b.similarity - a.similarity

\* x goes in front of the first element the comparator puts after it
RECURSIVE InsertSorted(_, _)
InsertSorted(sorted, x) ==
  IF sorted = <<>> THEN <<x>>
  ELSE IF Comparator(Head(sorted), x) > 0 THEN <<x>> \o sorted
  ELSE <<Head(sorted)>> \o InsertSorted(Tail(sorted), x)

\* Array.prototype.sort: stable; elements are taken in array order
RECURSIVE SortFrom(_, _, _)
SortFrom(arr, n, acc) ==
  IF n > Len(arr) THEN acc
  ELSE SortFrom(arr, n + 1, InsertSorted(acc, arr[n]))

Sort(arr) == SortFrom(arr, 1, <<>>)

ranked(ps, playerVec) == Sort([k \in 1..Len(ps) |-> Scored(ps[k], playerVec)])

\* ranked.slice(0, 5)
Slice(arr, n) == SubSeq(arr, 1, Min(n, Len(arr)))

\* steps 4 and the slice: the top of the ranking
rankedTop(ps, playerVec) == Slice(ranked(ps, playerVec), TopN)

\* a variant that sorts the roster itself: pros.sort(...) without the map
prosSortedInPlace(ps, playerVec) ==
  [k \in 1..Len(ps) |->
     CHOOSE p \in {ps[j] : j \in 1..Len(ps)} : p.name = ranked(ps, playerVec)[k].name]

\* pros.map builds a new array and .sort orders that copy: the roster the
\* process holds after the ranking
prosAfterRanking(ps, playerVec) == ps

(* -------------------------------- JSON -------------------------------- *)

AttrStriker == "{\"height_cm\":180,\"dominant_foot\":\"right\",\"position\":\"striker\",\"age\":22}"
AttrKeeper == "{\"height_cm\":210,\"dominant_foot\":\"left\",\"position\":\"goalkeeper\",\"age\":10,\"pace\":0.9,\"dribbling\":0.4,\"passing\":0.7,\"shooting\":0.2}"
AttrEmptyObject == "{}"
AttrNull == "null"
AttrMalformed == "{height_cm:180"
AttrEmptyString == ""

\* the texts the attributes field of a request carries in the model
AttrTexts == {AttrStriker, AttrEmptyObject, AttrNull, AttrMalformed, AttrEmptyString}

\* the texts that parse to an object
ObjectTexts == {AttrStriker, AttrKeeper, AttrEmptyObject}

\* the fields of a multipart body: with or without an attributes field
ReqBodies == {[f \in {} |-> ""]} \cup {[attributes |-> t] : t \in AttrTexts}

JSNull == [null |-> TRUE]
Threw(name) == [ok |-> FALSE, error |-> name]
Returned(v) == [ok |-> TRUE, value |-> v]

\* JSON.parse on the attribute texts; every other text is not JSON
JSONParse(text) ==
  CASE text = AttrStriker ->
         Returned([height_cm |-> 180, dominant_foot |-> "right",
                   position |-> "striker", age |-> 22])
    [] text = AttrKeeper ->
         Returned([height_cm |-> 210, dominant_foot |-> "left",
                   position |-> "goalkeeper", age |-> 10,
                   pace |-> (9 * Unit) \div 10, dribbling |-> (4 * Unit) \div 10,
                   passing |-> (7 * Unit) \div 10, shooting |-> (2 * Unit) \div 10])
    [] text = AttrEmptyObject -> Returned([f \in {} |-> 0])
    [] text = AttrNull -> Returned(JSNull)
    [] OTHER -> Threw("SyntaxError")

\* JSON.stringify writes null for a NaN
JsonNumber(x) == IF x = NaN THEN JSONNull ELSE x

JsonPlayers(top) ==
  [k \in 1..Len(top) |->
     [name |-> top[k].name, position |-> top[k].position, club |-> top[k].club,
      similarity |-> JsonNumber(top[k].similarity)]]

\* The ranking is a function of the roster and the player vector alone; it is
\* tabulated once over the vectors the model draws and looked up afterwards.
DrawnVecs ==
  {playerVecOf(extractFeatures(JSONParse(t).value), m) : t \in ObjectTexts, m \in MetricsGrid}

TopMemo == {[vec |-> v, ps |-> r, top |-> rankedTop(r, v)] : v \in DrawnVecs, r \in Rosters}

topOf(ps, playerVec) ==
  IF \E e \in TopMemo : e.vec = playerVec /\ e.ps = ps
    THEN (CHOOSE e \in TopMemo : e.vec = playerVec /\ e.ps = ps).top
    ELSE rankedTop(ps, playerVec)

(* ------------------------------ file system --------------------------- *)

\* A path is the sequence of its segments below __dirname.  A file holds a
\* JSON text: whole (json is its value) or cut short by a failed write.
Whole(v) == [complete |-> TRUE, json |-> v]
Truncated == [complete |-> FALSE, json |-> JSNull]

\* path.join: ".." removes the segment before it
RECURSIVE Normalize(_, _)
Normalize(segs, acc) ==
  IF segs = <<>> THEN acc
  ELSE IF Head(segs) = ".." /\ acc # <<>> /\ acc[Len(acc)] # ".."
         THEN Normalize(Tail(segs), SubSeq(acc, 1, Len(acc) - 1))
  ELSE Normalize(Tail(segs), Append(acc, Head(segs)))

\* `${id}.json`, id given by its segments between slashes
WithJson(id) == [id EXCEPT ![Len(id)] = id[Len(id)] \o ".json"]

\* path.join(__dirname, 'sessions', `${id}.json`)
sessionPath(id) == Normalize(<<"sessions">> \o WithJson(id), <<>>)

existsSync(fs, p) == p \in DOMAIN fs

\* JSON.parse(fs.readFileSync(p, 'utf8'))
readJSON(fs, p) ==
  IF fs[p].complete THEN Returned(fs[p].json) ELSE Threw("SyntaxError")

\* the outcomes of fs.writeFileSync: written; refused before the file is
\* opened; failed after the file was created or emptied
WriteOutcomes == {"ok", "EACCES", "ENOSPC"}

writeFileSync(fs, p, v, outcome) ==
  CASE outcome = "ok" -> [q \in DOMAIN fs \cup {p} |-> IF q = p THEN Whole(v) ELSE fs[q]]
    [] outcome = "ENOSPC" -> [q \in DOMAIN fs \cup {p} |-> IF q = p THEN Truncated ELSE fs[q]]
    [] OTHER -> fs

\* the values of uuidv4().slice(0,8)
IdOf(n) == "0000000" \o ToString(n)
Ids == {IdOf(n) : n \in 1..NumIds}

(* ------------------------------ handlers ------------------------------ *)

Response(op, req, status, body) == [op |-> op, req |-> req, status |-> status, body |-> body]

\* a variant that tests attrRaw === '' for !attrRaw
attrMissingOnlyEmpty(body) == "attributes" \in DOMAIN body /\ body.attributes = ""

\* !attrRaw: the field is absent, or is the empty string
attrMissing(body) == "attributes" \notin DOMAIN body \/ body.attributes = ""

\* JSON.parse(attrRaw); JSON.parse(undefined) throws as any other non-JSON
parseAttributes(body) ==
  IF "attributes" \in DOMAIN body THEN JSONParse(body.attributes)
  ELSE Threw("SyntaxError")

\* the record of step 6
sessionRecord(id, attrs, metrics, top) ==
  [id |-> id, attrs |-> attrs, metrics |-> metrics, similar_players |-> JsonPlayers(top)]

\* the catch block
Failed(body) == Response("analyze", body, 500, [error |-> "Failed to analyze"])

\* what the handler holds when it answers 200; session is the empty record
\* where no session is stored
Answer(op, body, session, attrs, metrics, feats, playerVec, top) ==
  [op |-> op, req |-> body, status |-> 200,
   body |-> [f \in DOMAIN session \cup {"metrics", "suggestions", "similar_players"} |->
               CASE f = "metrics" -> metrics
                 [] f = "suggestions" -> suggestionsFromMetrics(metrics)
                 [] f = "similar_players" -> JsonPlayers(top)
                 [] OTHER -> session[f]],
   locals |-> [attrs |-> attrs, feats |-> feats, playerVec |-> playerVec, top |-> top]]

\* app.post('/analyze') on a request body; analyzeVideoMock, uuidv4 and
\* writeFileSync each give the request one of their outcomes
Analyze(body) ==
  IF attrMissing(body)
    THEN /\ last' = Response("analyze", body, 400, [error |-> "Missing attributes"])
         /\ UNCHANGED <<pros, files, sessionsDir>>
  ELSE IF ~parseAttributes(body).ok \/ parseAttributes(body).value = JSNull
    \* JSON.parse threw, or extractFeatures destructured null
    THEN /\ last' = Failed(body)
         /\ UNCHANGED <<pros, files, sessionsDir>>
  ELSE
    \E metrics \in analyzeVideoMock :
      LET attrs == parseAttributes(body).value
          feats == extractFeatures(attrs)
          playerVec == playerVecOf(feats, metrics)
          top == topOf(pros, playerVec)
      IN \E id \in Ids, outcome \in WriteOutcomes :
           /\ pros' = prosAfterRanking(pros, playerVec)
           /\ sessionsDir' = TRUE
           /\ files' = writeFileSync(files, sessionPath(<<id>>),
                                     sessionRecord(id, attrs, metrics, top), outcome)
           /\ last' = IF outcome = "ok"
                        THEN Answer("analyze", body, [session_id |-> id], attrs,
                                    metrics, feats, playerVec, top)
                        ELSE Failed(body)

\* steps 1 to 5 of the handler alone, on an attributes text and a metrics
\* record: nothing is stored
Evaluate(text, metrics) ==
  LET attrs == JSONParse(text).value
      feats == extractFeatures(attrs)
      playerVec == playerVecOf(feats, metrics)
      top == topOf(pros, playerVec)
  IN /\ last' = Answer("evaluate", [attributes |-> text], [f \in {} |-> ""], attrs,
                       metrics, feats, playerVec, top)
     /\ pros' = prosAfterRanking(pros, playerVec)
     /\ UNCHANGED <<files, sessionsDir>>

\* the response of app.get('/sessions/:id') on a file system; an exception of
\* the handler is answered 500 by the framework
sessionResponse(fs, id) ==
  LET p == sessionPath(id)
  IN IF ~existsSync(fs, p) THEN Response("get", id, 404, [error |-> "Not found"])
     ELSE IF ~readJSON(fs, p).ok
            THEN Response("get", id, 500, [error |-> "Internal Server Error"])
     ELSE Response("get", id, 200, readJSON(fs, p).value)

\* the values of :id the model requests: the generated ids, an id never
\* generated, and ..%2Fpros, which the router decodes to ../pros
GetIds == {<<i>> : i \in Ids} \cup {<<"ffffffff">>, <<"..", "pros">>}

GetSession(id) ==
  /\ last' = sessionResponse(files, id)
  /\ UNCHANGED <<pros, files, sessionsDir>>

\* app.get('/health')
Health ==
  /\ last' = Response("health", <<>>, 200, [ok |-> TRUE])
  /\ UNCHANGED <<pros, files, sessionsDir>>

(* ---------------------------- specification --------------------------- *)

\* after start-up: pros.json read into pros, no sessions/ directory yet
Init ==
  /\ pros \in Rosters
  /\ files = [p \in {<<"pros.json">>} |-> Whole(pros)]
  /\ sessionsDir = FALSE
  /\ last = [op |-> "none", status |-> 0]

Next ==
  \/ \E body \in ReqBodies : Analyze(body)
  \/ \E id \in GetIds : GetSession(id)
  \/ Health

Spec == Init /\ [][Next]_vars

\* the pure pipeline on every drawn attributes text and metrics record
PureNext == \E text \in ObjectTexts, metrics \in MetricsGrid : Evaluate(text, metrics)

PureSpec == Init /\ [][PureNext]_vars

TypeOK ==
  /\ pros \in Rosters
  /\ sessionsDir \in BOOLEAN
  /\ analyzeVideoMock \subseteq MetricsGrid
  /\ MetricsGrid \subseteq MetricsRange
  /\ last.status \in {0, 200, 400, 404, 500}

(* -------------------------------- claims ------------------------------ *)

\* the last request was answered 200 with the results of the pipeline
Answered == last.op \in {"analyze", "evaluate"} /\ last.status = 200
AnsweredAnalyze == last.op = "analyze" /\ last.status = 200

\* a session file: a file below sessions/
IsSessionPath(p) == Len(p) = 2 /\ p[1] = "sessions"
SessionPaths == {p \in DOMAIN files : IsSessionPath(p)}

\* x < y as JavaScript compares: false when either is NaN
Less(x, y) == x # NaN /\ y # NaN /\ x < y

\* C1: a session record that has been persisted is never changed or replaced
\* afterwards.  Stated of the steps the claim names, those in which an analyze
\* request stores its record and is answered: the id it stores under is one
\* no existing file uses, and every whole session file is the same file
\* after the step.
C1_WriteOnce ==
  [][AnsweredAnalyze' =>
       /\ ~existsSync(files, sessionPath(<<last'.body.session_id>>))
       /\ \A p \in SessionPaths :
            files[p].complete => (existsSync(files', p) /\ files'[p] = files[p])]_vars

\* the attrs, metrics and similar_players of a GET response are those of an
\* answered analyze request
Matches(got, answer) ==
  /\ got.status = 200
  /\ got.body.attrs = JSONParse(answer.req.attributes).value
  /\ got.body.metrics = answer.body.metrics
  /\ got.body.similar_players = answer.body.similar_players

\* C2: for every analyze request answered with a session_id, a GET of that id
\* at any later point returns 200 with the posted attrs and the metrics and
\* similar_players of the analyze response.  Stated of the steps in which an
\* analyze request is answered: after the step a GET of its session_id
\* returns its record, and a GET of any id that returned a record before the
\* step returns the same record after it.
C2_Retrievable ==
  [][AnsweredAnalyze' =>
       /\ Matches(sessionResponse(files', <<last'.body.session_id>>), last')
       /\ \A i \in Ids :
            sessionResponse(files, <<i>>).status = 200 =>
              sessionResponse(files', <<i>>) = sessionResponse(files, <<i>>)]_vars

\* C3: an analyze request whose attributes field is present but is not valid
\* JSON is answered 400.
C3_Malformed400 ==
  (/\ last.op = "analyze"
   /\ "attributes" \in DOMAIN last.req
   /\ ~JSONParse(last.req.attributes).ok) => last.status = 400

\* C4: an analyze request without an attributes field is answered 400 and
\* leaves the session store as it was.
C4_AbsentAttributes ==
  [][(last'.op = "analyze" /\ "attributes" \notin DOMAIN last'.req) =>
       (last'.status = 400 /\ files' = files)]_vars

\* C4 witness: a request without the field was answered 400 while the store
\* held a session file
C4_Witness ==
  /\ last.op = "analyze"
  /\ "attributes" \notin DOMAIN last.req
  /\ last.status = 400
  /\ \E p \in SessionPaths : files[p].complete

\* C5: every analyze request either stores the whole session record and is
\* answered 200 with its session_id, or is answered 400 or 500 and leaves no
\* file, whole or partial, behind: the files are as they were.
C5_AllOrNothing ==
  [][last'.op = "analyze" =>
       \/ /\ last'.status = 200
          /\ existsSync(files', sessionPath(<<last'.body.session_id>>))
          /\ files'[sessionPath(<<last'.body.session_id>>)] =
               Whole(sessionRecord(last'.body.session_id, last'.locals.attrs,
                                   last'.body.metrics, last'.locals.top))
       \/ /\ last'.status \in {400, 500}
          /\ files' = files]_vars

\* the record an analyze request has persisted under the id of a GET, if any
Persisted(id) ==
  /\ Len(id) = 1
  /\ id[1] \in Ids
  /\ existsSync(files, <<"sessions", id[1] \o ".json">>)
  /\ files[<<"sessions", id[1] \o ".json">>].complete

\* C6: GET /sessions/{id} is answered 404 for every id under which no analyze
\* request has persisted a record, and 200 with that record otherwise.
C6_GetSession ==
  last.op = "get" =>
    IF Persisted(last.req)
      THEN last.status = 200 /\ last.body = files[<<"sessions", last.req[1] \o ".json">>].json
      ELSE last.status = 404

\* C7: the suggestion list is non-empty, holds the fallback iff no threshold
\* fires, and otherwise is the suggestions of the fired thresholds in the
\* order knee flexion, body lean, sprint tempo, touches.
C7_Suggestions ==
  Answered =>
    LET m == last.body.metrics
        s == last.body.suggestions
        fired == <<m.kneeFlex < 50, m.bodyLean < 10, m.sprintTempo < 160, m.touches < 15>>
        rules == <<SuggestKnee, SuggestLean, SuggestTempo, SuggestTouches>>
        idx == {i \in 1..4 : fired[i]}
        nth(i) == CHOOSE j \in idx : Cardinality({k \in idx : k < j}) = i - 1
    IN /\ Len(s) >= 1
       /\ (\E i \in 1..Len(s) : s[i] = SuggestFallback) <=> idx = {}
       /\ idx # {} => /\ Len(s) = Cardinality(idx)
                      /\ \A i \in 1..Len(s) : s[i] = rules[nth(i)]

\* C7 witness: the first and the third threshold fired, and only they
C7_Witness ==
  /\ Answered
  /\ last.body.metrics.kneeFlex < 50 /\ last.body.metrics.sprintTempo < 160
  /\ last.body.suggestions = <<SuggestKnee, SuggestTempo>>

\* the roster index of the k-th entry of a top list
RosterIndex(top, k) == CHOOSE j \in 1..Len(pros) : pros[j].name = top[k].name

\* C8: similar_players has min(5, roster size) entries, each a roster entry
\* with its similarity to the player vector, in non-increasing similarity,
\* equal similarities in roster order, and no roster entry left out is more
\* similar than one included.
C8_Ranking ==
  Answered =>
    LET top == last.locals.top
        vec == last.locals.playerVec
        n == Len(top)
        in == {RosterIndex(top, k) : k \in 1..n}
    IN /\ n = Min(5, Len(pros))
       /\ Len(last.body.similar_players) = n
       /\ \A k \in 1..n :
            /\ \E j \in 1..Len(pros) : pros[j].name = top[k].name
            /\ top[k].similarity = cosineSim(vec, pros[RosterIndex(top, k)].features)
       /\ Cardinality(in) = n
       /\ \A i, j \in 1..n :
            i < j => /\ ~Less(top[i].similarity, top[j].similarity)
                     /\ top[i].similarity = top[j].similarity =>
                          RosterIndex(top, i) < RosterIndex(top, j)
       /\ \A j \in (1..Len(pros)) \ in :
            \A k \in 1..n : ~Less(top[k].similarity, cosineSim(vec, pros[j].features))

\* C8 witness: a roster longer than five was ranked, the ranking moved the
\* first roster entry from the front, and two entries of the top are tied
C8_Witness ==
  /\ Answered
  /\ Len(pros) > 5
  /\ Len(last.locals.top) = 5
  /\ last.locals.top[1].name # pros[1].name
  /\ \E i, j \in 1..5 :
       /\ i < j
       /\ last.locals.top[i].similarity # NaN
       /\ last.locals.top[i].similarity = last.locals.top[j].similarity
  /\ Less(last.locals.top[5].similarity, last.locals.top[1].similarity)

\* C9: the feature vector has exactly 17 entries, each in [0,1], and the
\* player vector exactly 21, each in [0,1].
C9_VectorShape ==
  Answered =>
    /\ Len(last.locals.feats) = 17
    /\ \A i \in 1..Len(last.locals.feats) : last.locals.feats[i] \in 0..Unit
    /\ Len(last.locals.playerVec) = 21
    /\ \A i \in 1..Len(last.locals.playerVec) : last.locals.playerVec[i] \in 0..Unit

\* C10: no request changes the roster, and an analyze request with the player
\* vector of the request before it returns the same ordered top list.
C10_RosterFixed ==
  [][/\ pros' = pros
     /\ (AnsweredAnalyze /\ AnsweredAnalyze' /\
         last'.locals.playerVec = last.locals.playerVec) =>
          last'.body.similar_players = last.body.similar_players]_vars

\* C10 witness: two analyze requests with the same attributes and metrics
\* were answered under different ids, with the same top list
C10_Witness ==
  /\ AnsweredAnalyze
  /\ \E p \in SessionPaths :
       /\ p # sessionPath(<<last.body.session_id>>)
       /\ files[p].complete
       /\ files[p].json.attrs = last.locals.attrs
       /\ files[p].json.metrics = last.body.metrics
       /\ files[p].json.similar_players = last.body.similar_players

====
